---- MODULE Spec2Model ----
(***************************************************************************)
(* Model of the ampscz-anonymize pipeline:                                 *)
(*   1_generate_site_maps.py     site map      (Spec)                      *)
(*   2_generate_subject_maps.py  subject map   (Spec)                      *)
(*   3_consolidate_dates.py      date offsets  (SpecDates)                 *)
(*   5_anonymize.py              anonymization (SpecAnon, SpecCell)        *)
(* Python strings are sequences of one-character strings, dicts are        *)
(* functions, files on disk are either NoFile or the dict that was dumped. *)
(***************************************************************************)
EXTENDS Integers, Sequences, FiniteSets, TLC

VARIABLES
    \* ---- persisted map files under mappings_root
    site_mapping_json,      \* site_mapping.json
    subject_mapping_json,   \* subject_mapping.json
    \* ---- the running map-building process (scripts 1 and 2)
    pc,                     \* control position of the running script
    result,                 \* per script: how its run ended
    sources,                \* source paths still to be read by the source loop
    skip_site_map,          \* mapping_config["skip_site_map"]
    addon_subjects,         \* [addons] subjects of the configuration
    sites,                  \* generate_site_map: sites
    site_map,               \* site_map of the running script
    sites_todo,             \* get_site_map: sites the for loop has not visited
    site,                   \* get_site_map: loop variable
    site_id,                \* get_anonymized_site_id: candidate
    subjects,               \* generate_subject_map: subjects
    subject_map,            \* subject_map of the running script
    subjects_todo,          \* get_subject_map: subjects not yet visited
    subject,                \* get_subject_map: loop variable
    subject_code,           \* get_anonymized_subject_id: candidate
    \* ---- 3_consolidate_dates.py
    subject_date_mapping_json,  \* subject_date_mapping.json
    date_sources,           \* the declared source paths and what they hold
    date_addons,            \* [addons] dates of the configuration
    subject_date_offset_map, \* generate_subject_map: subject_date_offset_map
    \* ---- 5_anonymize.py: one call of get_anonymized_date
    cell_pc,                \* "input" before the call, "done" after it
    cell_file_name,         \* file_path.name
    cell_row,               \* row
    cell_col,               \* col
    cell_date_map,          \* subject_date_offset_map
    cell_out,               \* the value returned
    \* ---- 5_anonymize.py: anonymize_data
    anon_pc,                \* "walk" while os.walk runs, then "done"
    tree,                   \* the files under data_root in walk order
    maps,                   \* the three maps loaded from mappings_root
    walk_pos,               \* position of the walk in tree
    writes,                 \* the df.to_csv calls made, in order
    log,                    \* the "Ignoring file" warnings, in order
    WARNINGS                \* WARNINGS: subjects warned about

mapVars == <<site_mapping_json, subject_mapping_json, pc, result, sources,
             skip_site_map, addon_subjects, sites, site_map, sites_todo, site,
             site_id, subjects, subject_map, subjects_todo, subject,
             subject_code>>

dateVars == <<subject_date_mapping_json, date_sources, date_addons,
              subject_date_offset_map>>

cellVars == <<cell_pc, cell_file_name, cell_row, cell_col, cell_date_map,
              cell_out>>

anonVars == <<anon_pc, tree, maps, walk_pos, writes, log, WARNINGS>>

vars == <<mapVars, dateVars, cellVars, anonVars>>

\* ------------------------------------------------------------------------
\* Bounds of the model
\* ------------------------------------------------------------------------

\* Number of outcomes of generate_site_id considered (AA, AB, AC, ...).
NSiteIds == 3

\* Number of outcomes of generate_subject_id considered (11111, 11112, ...).
NSubjectIds == 3

\* Longest list of declared source paths.
MaxSources == 2

\* Largest number of files under data_root.
MaxFiles == 2

\* ------------------------------------------------------------------------
\* Strings and dicts
\* ------------------------------------------------------------------------

Min(a, b) == IF a < b THEN a ELSE b

Range(f) == {f[x] : x \in DOMAIN f}

\* {} as a Python dict.
EmptyDict == [k \in {} |-> k]

\* d[k] = v on a copy of d.
Put(d, k, v) == (k :> v) @@ d

\* d.update(e)
Update(d, e) == e @@ d

\* s[:2]
Prefix2(s) == SubSeq(s, 1, Min(2, Len(s)))

\* A path that does not exist / a file that was never written.
NoFile == [exists |-> FALSE, data |-> EmptyDict]

\* A file holding data (a table's column, a dumped dict).
File(d) == [exists |-> TRUE, data |-> d]

\* The value of a local that is not in scope.
None == <<>>

Alphabet ==
    <<"A", "B", "C", "D", "E", "F", "G", "H", "I", "J", "K", "L", "M",
      "N", "O", "P", "Q", "R", "S", "T", "U", "V", "W", "X", "Y", "Z">>

NonZeroDigits == <<"1", "2", "3", "4", "5", "6", "7", "8", "9">>

SiteIdLen == 2

SubjectIdLen == 5

RECURSIVE Pow(_, _)
Pow(b, e) == IF e = 0 THEN 1 ELSE b * Pow(b, e - 1)

\* The n-th string of length k over the alphabet abc (n written in base
\* Len(abc), most significant character first).
NthString(abc, k, n) ==
    [i \in 1..k |-> abc[((n \div Pow(Len(abc), k - i)) % Len(abc)) + 1]]

combined == <<"c", "o", "m", "b", "i", "n", "e", "d">>
AMPSCZ == <<"A", "M", "P", "S", "C", "Z">>
Prescient == <<"P", "r", "e", "s", "c", "i", "e", "n", "t">>
ProNET == <<"P", "r", "o", "N", "E", "T">>
PRESCIENT == <<"P", "R", "E", "S", "C", "I", "E", "N", "T">>
PRONET == <<"P", "R", "O", "N", "E", "T">>

\* Invocations of the scripts in one behaviour of SpecRuns.
MaxRuns == 2

\* ------------------------------------------------------------------------
\* Inputs: subject columns of the source tables, addon lists
\* ------------------------------------------------------------------------

PR00001 == <<"P", "R", "0", "0", "0", "0", "1">>
PR00002 == <<"P", "R", "0", "0", "0", "0", "2">>
ME00001 == <<"M", "E", "0", "0", "0", "0", "1">>
EmptyString == <<>>

\* The "subject" column of the tables a source path may hold.
SourceTables == {File(<<PR00001, PR00002, PR00001>>), File(<<ME00001>>)}

\* A declared list of source paths: each path holds a table or does not exist.
SourceLists ==
    UNION {[1..n -> SourceTables \cup {[exists |-> FALSE, data |-> <<>>]}] :
              n \in 1..MaxSources}

\* [addons] subjects after split(","): never an empty list; an empty setting
\* gives the one-element list [""].
AddonLists == {<<EmptyString>>, <<PR00002>>, <<PRONET>>}

Scripts == {"site", "subject", "dates"}

\* ------------------------------------------------------------------------
\* 1_generate_site_maps.py
\* ------------------------------------------------------------------------

\* The outcomes of generate_site_id().
generate_site_id ==
    {NthString(Alphabet, SiteIdLen, n) : n \in 0..(NSiteIds - 1)}

\* Mutation of SiteIdTaken: the uniqueness check never fires.
SiteIdNeverTaken(id, map) == FALSE

\* while site_id in site_map.values()
SiteIdTaken(id, map) == id \in Range(map)

\* get_all_sites: the 2-character prefixes of the unique subjects.
get_all_sites(source) == {Prefix2(s) : s \in Range(source)}

\* What generate_site_map does to the map get_site_map returned.
FinishSiteMap(map, ss, skip) ==
    LET withCombined == Put(map, combined, combined)
    IN  IF skip
        THEN [k \in DOMAIN withCombined \cup ss |->
                 IF k \in ss THEN k ELSE withCombined[k]]
        ELSE withCombined

\* The state of the locals when no script runs.
NoLocals ==
    /\ sources = <<>>
    /\ skip_site_map = FALSE
    /\ addon_subjects = <<>>
    /\ sites = {}
    /\ site_map = EmptyDict
    /\ sites_todo = {}
    /\ site = None
    /\ site_id = None
    /\ subjects = {}
    /\ subject_map = EmptyDict
    /\ subjects_todo = {}
    /\ subject = None
    /\ subject_code = None

\* The script exits (normally or by an uncaught exception): locals are gone.
Exit(script, how) ==
    /\ pc' = "idle"
    /\ result' = [result EXCEPT ![script] = how]
    /\ sources' = <<>>
    /\ skip_site_map' = FALSE
    /\ addon_subjects' = <<>>
    /\ sites' = {}
    /\ site_map' = EmptyDict
    /\ sites_todo' = {}
    /\ site' = None
    /\ site_id' = None
    /\ subjects' = {}
    /\ subject_map' = EmptyDict
    /\ subjects_todo' = {}
    /\ subject' = None
    /\ subject_code' = None

\* generate_site_map is started with a configuration.
StartSiteStage ==
    /\ pc = "idle"
    /\ result["site"] = "none"
    /\ \E srcs \in SourceLists, skip \in BOOLEAN :
          /\ sources' = srcs
          /\ skip_site_map' = skip
    /\ pc' = "site_read"
    /\ UNCHANGED <<site_mapping_json, subject_mapping_json, result,
                   addon_subjects, sites, site_map, sites_todo, site, site_id,
                   subjects, subject_map, subjects_todo, subject, subject_code>>

\* One iteration of the source loop: the path does not exist.
SiteSourceMissing ==
    /\ pc = "site_read"
    /\ sources # <<>>
    /\ ~Head(sources).exists
    /\ Exit("site", "FileNotFoundError")
    /\ UNCHANGED <<site_mapping_json, subject_mapping_json>>

\* One iteration of the source loop: sites.update(get_all_sites(source)).
SiteSourceRead ==
    /\ pc = "site_read"
    /\ sources # <<>>
    /\ Head(sources).exists
    /\ sites' = sites \cup get_all_sites(Head(sources).data)
    /\ sources' = Tail(sources)
    /\ UNCHANGED <<site_mapping_json, subject_mapping_json, pc, result,
                   skip_site_map, addon_subjects, site_map, sites_todo, site,
                   site_id, subjects, subject_map, subjects_todo, subject,
                   subject_code>>

\* get_site_map is entered: site_map = {}.
GetSiteMapEnter ==
    /\ pc = "site_read"
    /\ sources = <<>>
    /\ site_map' = EmptyDict
    /\ sites_todo' = sites
    /\ pc' = "site_loop"
    /\ UNCHANGED <<site_mapping_json, subject_mapping_json, result, sources,
                   skip_site_map, addon_subjects, sites, site, site_id,
                   subjects, subject_map, subjects_todo, subject, subject_code>>

\* for site in sites: get_anonymized_site_id returns the known code of the
\* site or draws its first candidate (the iteration order of a set is not
\* fixed).
SiteLoopNext ==
    /\ pc = "site_loop"
    /\ \E s \in sites_todo :
          /\ site' = s
          /\ sites_todo' = sites_todo \ {s}
          /\ IF s \in DOMAIN site_map
             THEN /\ site_id' = site_map[s]
                  /\ site_map' = Put(site_map, s, site_map[s])
                  /\ pc' = "site_loop"
             ELSE /\ site_id' \in generate_site_id
                  /\ site_map' = site_map
                  /\ pc' = "site_check"
    /\ UNCHANGED <<site_mapping_json, subject_mapping_json, result, sources,
                   skip_site_map, addon_subjects, sites, subjects,
                   subject_map, subjects_todo, subject, subject_code>>

\* while site_id in site_map.values(): site_id = generate_site_id()
SiteIdRetry ==
    /\ pc = "site_check"
    /\ SiteIdTaken(site_id, site_map)
    /\ site_id' \in generate_site_id
    /\ UNCHANGED <<site_mapping_json, subject_mapping_json, pc, result,
                   sources, skip_site_map, addon_subjects, sites, site_map,
                   sites_todo, site, subjects, subject_map, subjects_todo,
                   subject, subject_code>>

\* The candidate is returned and site_map[site] = anonymized_site_id.
SiteIdAssign ==
    /\ pc = "site_check"
    /\ ~SiteIdTaken(site_id, site_map)
    /\ site_map' = Put(site_map, site, site_id)
    /\ pc' = "site_loop"
    /\ UNCHANGED <<site_mapping_json, subject_mapping_json, result, sources,
                   skip_site_map, addon_subjects, sites, sites_todo, site,
                   site_id, subjects, subject_map, subjects_todo, subject,
                   subject_code>>

\* get_site_map returns site_map.
GetSiteMapReturn ==
    /\ pc = "site_loop"
    /\ sites_todo = {}
    /\ pc' = "site_map_ready"
    /\ UNCHANGED <<site_mapping_json, subject_mapping_json, result, sources,
                   skip_site_map, addon_subjects, sites, site_map, sites_todo,
                   site, site_id, subjects, subject_map, subjects_todo,
                   subject, subject_code>>

\* The rest of generate_site_map: "combined", the skip policy, json.dump.
WriteSiteMap ==
    /\ pc = "site_map_ready"
    /\ site_mapping_json' = File(FinishSiteMap(site_map, sites, skip_site_map))
    /\ Exit("site", "ok")
    /\ UNCHANGED subject_mapping_json

SiteStage ==
    \/ StartSiteStage
    \/ SiteSourceMissing
    \/ SiteSourceRead
    \/ GetSiteMapEnter
    \/ SiteLoopNext
    \/ SiteIdRetry
    \/ SiteIdAssign
    \/ GetSiteMapReturn
    \/ WriteSiteMap

\* ------------------------------------------------------------------------
\* 2_generate_subject_maps.py
\* ------------------------------------------------------------------------

\* The outcomes of generate_subject_id().
generate_subject_id ==
    {NthString(NonZeroDigits, SubjectIdLen, n) : n \in 0..(NSubjectIds - 1)}

\* Mutation of SubjectCode: the site code is left out.
SubjectCodeNoSite(anonymized_site_id, id) == id

\* anonmymized_site_id + generate_subject_id()
SubjectCode(anonymized_site_id, id) == anonymized_site_id \o id

\* Mutation of SubjectCodeTaken: the uniqueness check never fires.
SubjectCodeNeverTaken(code, map) == FALSE

\* while anonmymized_subject_code in subject_map.values()
SubjectCodeTaken(code, map) == code \in Range(map)

\* get_all_subjects: the unique values of the subject column.
get_all_subjects(source) == Range(source)

\* The literal organizational labels generate_subject_map sets, in order.
LiteralLabels ==
    <<<<AMPSCZ, AMPSCZ>>, <<Prescient, Prescient>>, <<ProNET, ProNET>>,
      <<PRESCIENT, Prescient>>, <<PRONET, ProNET>>>>

\* subject_map[k] = v for each literal label, in order.
RECURSIVE AddLabels(_, _)
AddLabels(map, labels) ==
    IF labels = <<>> THEN map
    ELSE AddLabels(Put(map, Head(labels)[1], Head(labels)[2]), Tail(labels))

\* for site_k, site_v in site_map.items(): subject_map[site_k] = site_v
add_sites_to_subject_map(smap, map) == Update(smap, map)

\* Mutation of FinishSubjectMap: the participants are assigned after the
\* literal labels and the sites.
FinishSubjectMapParticipantsLast(smap, map) ==
    Update(add_sites_to_subject_map(AddLabels(EmptyDict, LiteralLabels), map),
           smap)

\* What generate_subject_map does to the map get_subject_map returned.
FinishSubjectMap(smap, map) ==
    add_sites_to_subject_map(AddLabels(smap, LiteralLabels), map)

\* generate_subject_map is started with a configuration.
StartSubjectStage ==
    /\ pc = "idle"
    /\ result["subject"] = "none"
    /\ sources' \in SourceLists
    /\ addon_subjects' \in AddonLists
    /\ pc' = "subject_read"
    /\ UNCHANGED <<site_mapping_json, subject_mapping_json, result,
                   skip_site_map, sites, site_map, sites_todo, site, site_id,
                   subjects, subject_map, subjects_todo, subject, subject_code>>

\* One iteration of the source loop: the path does not exist.
SubjectSourceMissing ==
    /\ pc = "subject_read"
    /\ sources # <<>>
    /\ ~Head(sources).exists
    /\ Exit("subject", "FileNotFoundError")
    /\ UNCHANGED <<site_mapping_json, subject_mapping_json>>

\* One iteration of the source loop: subjects.update(get_all_subjects(source)).
SubjectSourceRead ==
    /\ pc = "subject_read"
    /\ sources # <<>>
    /\ Head(sources).exists
    /\ subjects' = subjects \cup get_all_subjects(Head(sources).data)
    /\ sources' = Tail(sources)
    /\ UNCHANGED <<site_mapping_json, subject_mapping_json, pc, result,
                   skip_site_map, addon_subjects, sites, site_map, sites_todo,
                   site, site_id, subject_map, subjects_todo, subject,
                   subject_code>>

\* Mutation of SiteMapFileMissing: without the file the stage goes on with an
\* empty site map.
SiteMapFileDefaulted ==
    /\ pc = "subject_read"
    /\ sources = <<>>
    /\ ~site_mapping_json.exists
    /\ subjects' = subjects \cup Range(addon_subjects)
    /\ site_map' = EmptyDict
    /\ subject_map' = EmptyDict
    /\ subjects_todo' = subjects'
    /\ pc' = "subject_loop"
    /\ UNCHANGED <<site_mapping_json, subject_mapping_json, result, sources,
                   skip_site_map, addon_subjects, sites, sites_todo, site,
                   site_id, subject, subject_code>>

\* subjects.update(addon_subjects); open(site_map_path) finds no file.
SiteMapFileMissing ==
    /\ pc = "subject_read"
    /\ sources = <<>>
    /\ ~site_mapping_json.exists
    /\ Exit("subject", "FileNotFoundError")
    /\ UNCHANGED <<site_mapping_json, subject_mapping_json>>

\* subjects.update(addon_subjects); site_map = json.load(f); get_subject_map
\* is entered: subject_map = {}.
GetSubjectMapEnter ==
    /\ pc = "subject_read"
    /\ sources = <<>>
    /\ site_mapping_json.exists
    /\ subjects' = subjects \cup Range(addon_subjects)
    /\ site_map' = site_mapping_json.data
    /\ subject_map' = EmptyDict
    /\ subjects_todo' = subjects'
    /\ pc' = "subject_loop"
    /\ UNCHANGED <<site_mapping_json, subject_mapping_json, result, sources,
                   skip_site_map, addon_subjects, sites, sites_todo, site,
                   site_id, subject, subject_code>>

\* Mutation of SubjectSiteNotFound: the map built so far is dumped before the
\* KeyError leaves the script.
SubjectSiteNotFoundPartialDump ==
    /\ pc = "subject_loop"
    /\ \E s \in subjects_todo :
          /\ s \notin DOMAIN subject_map
          /\ Prefix2(s) \notin DOMAIN site_map
    /\ subject_mapping_json' = File(subject_map)
    /\ Exit("subject", "KeyError")
    /\ UNCHANGED site_mapping_json

\* for subject in subjects: the site id of the subject is not in site_map,
\* get_anonymized_subject_id raises KeyError.
SubjectSiteNotFound ==
    /\ pc = "subject_loop"
    /\ \E s \in subjects_todo :
          /\ s \notin DOMAIN subject_map
          /\ Prefix2(s) \notin DOMAIN site_map
    /\ Exit("subject", "KeyError")
    /\ UNCHANGED <<site_mapping_json, subject_mapping_json>>

\* for subject in subjects: get_anonymized_subject_id returns the known code
\* of the subject or draws its first candidate.
SubjectLoopNext ==
    /\ pc = "subject_loop"
    /\ \E s \in subjects_todo :
          /\ s \in DOMAIN subject_map \/ Prefix2(s) \in DOMAIN site_map
          /\ subject' = s
          /\ subjects_todo' = subjects_todo \ {s}
          /\ IF s \in DOMAIN subject_map
             THEN /\ subject_code' = subject_map[s]
                  /\ subject_map' = Put(subject_map, s, subject_map[s])
                  /\ pc' = "subject_loop"
             ELSE /\ \E id \in generate_subject_id :
                        subject_code' = SubjectCode(site_map[Prefix2(s)], id)
                  /\ subject_map' = subject_map
                  /\ pc' = "subject_check"
    /\ UNCHANGED <<site_mapping_json, subject_mapping_json, result, sources,
                   skip_site_map, addon_subjects, sites, site_map, sites_todo,
                   site, site_id, subjects>>

\* while anonmymized_subject_code in subject_map.values(): draw again.
SubjectCodeRetry ==
    /\ pc = "subject_check"
    /\ SubjectCodeTaken(subject_code, subject_map)
    /\ \E id \in generate_subject_id :
          subject_code' = SubjectCode(site_map[Prefix2(subject)], id)
    /\ UNCHANGED <<site_mapping_json, subject_mapping_json, pc, result,
                   sources, skip_site_map, addon_subjects, sites, site_map,
                   sites_todo, site, site_id, subjects, subject_map,
                   subjects_todo, subject>>

\* The candidate is returned and subject_map[subject] = anonymized_subject_id.
SubjectCodeAssign ==
    /\ pc = "subject_check"
    /\ ~SubjectCodeTaken(subject_code, subject_map)
    /\ subject_map' = Put(subject_map, subject, subject_code)
    /\ pc' = "subject_loop"
    /\ UNCHANGED <<site_mapping_json, subject_mapping_json, result, sources,
                   skip_site_map, addon_subjects, sites, site_map, sites_todo,
                   site, site_id, subjects, subjects_todo, subject,
                   subject_code>>

\* get_subject_map returns subject_map.
GetSubjectMapReturn ==
    /\ pc = "subject_loop"
    /\ subjects_todo = {}
    /\ pc' = "subject_map_ready"
    /\ UNCHANGED <<site_mapping_json, subject_mapping_json, result, sources,
                   skip_site_map, addon_subjects, sites, site_map, sites_todo,
                   site, site_id, subjects, subject_map, subjects_todo,
                   subject, subject_code>>

\* The rest of generate_subject_map: the literal labels, the sites, json.dump.
WriteSubjectMap ==
    /\ pc = "subject_map_ready"
    /\ subject_mapping_json' = File(FinishSubjectMap(subject_map, site_map))
    /\ Exit("subject", "ok")
    /\ UNCHANGED site_mapping_json

SubjectStage ==
    \/ StartSubjectStage
    \/ SubjectSourceMissing
    \/ SubjectSourceRead
    \/ SiteMapFileMissing
    \/ GetSubjectMapEnter
    \/ SubjectSiteNotFound
    \/ SubjectLoopNext
    \/ SubjectCodeRetry
    \/ SubjectCodeAssign
    \/ GetSubjectMapReturn
    \/ WriteSubjectMap

\* ------------------------------------------------------------------------
\* 3_consolidate_dates.py
\* ------------------------------------------------------------------------

XX00009 == <<"X", "X", "0", "0", "0", "0", "9">>

\* A row of a source table: its "subject" and "days" columns.
Row(s, d) == [subject |-> s, days |-> d]

\* The tables a declared source path may hold.
DateTables ==
    {File(<<Row(PR00001, 3), Row(ME00001, 4), Row(PR00001, 5)>>),
     File(<<Row(PR00001, 9)>>),
     File(<<Row(PR00002, 6), Row(ME00001, 0 - 2), Row(PR00002, 1)>>)}

DateSourceLists ==
    UNION {[1..n -> DateTables \cup {[exists |-> FALSE, data |-> <<>>]}] :
              n \in 1..MaxSources}

\* [addons] dates after split(",").
DateAddonLists == {<<EmptyString>>, <<PR00001>>, <<XX00009, PR00002>>}

\* possible_offsets
possible_offsets == {0 - 14, 0 - 7, 7, 14}

\* Mutation of FirstDays: the last row of the subject is taken.
LastDays(rows, s) ==
    rows[CHOOSE i \in 1..Len(rows) :
            /\ rows[i].subject = s
            /\ \A j \in 1..Len(rows) : rows[j].subject = s => j <= i].days

\* df[df["subject"] == subject]["days"].tolist()[0]
FirstDays(rows, s) ==
    rows[CHOOSE i \in 1..Len(rows) :
            /\ rows[i].subject = s
            /\ \A j \in 1..Len(rows) : rows[j].subject = s => i <= j].days

\* get_subject_date_offset_map: each unique subject with its first days.
get_subject_date_offset_map(rows) ==
    [s \in {rows[i].subject : i \in 1..Len(rows)} |-> FirstDays(rows, s)]

\* The outcomes of get_addons_subjects: a random offset for each addon.
get_addons_dates(addons) == [Range(addons) -> possible_offsets]

\* generate_subject_map (dates) is started with a configuration.
StartDatesStage ==
    /\ pc = "idle"
    /\ result["dates"] = "none"
    /\ date_sources' \in DateSourceLists
    /\ date_addons' \in DateAddonLists
    /\ sources' = date_sources'
    /\ subject_date_offset_map' = EmptyDict
    /\ pc' = "dates_read"
    /\ UNCHANGED <<site_mapping_json, subject_mapping_json, result,
                   skip_site_map, addon_subjects, sites, site_map, sites_todo,
                   site, site_id, subjects, subject_map, subjects_todo,
                   subject, subject_code, subject_date_mapping_json>>

\* One iteration of the source loop: the path does not exist.
DatesSourceMissing ==
    /\ pc = "dates_read"
    /\ sources # <<>>
    /\ ~Head(sources).exists
    /\ Exit("dates", "FileNotFoundError")
    /\ subject_date_offset_map' = EmptyDict
    /\ UNCHANGED <<site_mapping_json, subject_mapping_json,
                   subject_date_mapping_json, date_sources, date_addons>>

\* One iteration of the source loop:
\* subject_date_offset_map.update(get_subject_date_offset_map(source)).
DatesSourceRead ==
    /\ pc = "dates_read"
    /\ sources # <<>>
    /\ Head(sources).exists
    /\ subject_date_offset_map' =
          Update(subject_date_offset_map,
                 get_subject_date_offset_map(Head(sources).data))
    /\ sources' = Tail(sources)
    /\ UNCHANGED <<site_mapping_json, subject_mapping_json, pc, result,
                   skip_site_map, addon_subjects, sites, site_map, sites_todo,
                   site, site_id, subjects, subject_map, subjects_todo,
                   subject, subject_code, subject_date_mapping_json,
                   date_sources, date_addons>>

\* The addon offsets are drawn and merged, the map is dumped.
WriteDateMap ==
    /\ pc = "dates_read"
    /\ sources = <<>>
    /\ \E addon \in get_addons_dates(date_addons) :
          subject_date_mapping_json' =
             File(Update(subject_date_offset_map, addon))
    /\ Exit("dates", "ok")
    /\ subject_date_offset_map' = EmptyDict
    /\ UNCHANGED <<site_mapping_json, subject_mapping_json, date_sources,
                   date_addons>>

DatesStage ==
    \/ StartDatesStage
    \/ DatesSourceMissing
    \/ DatesSourceRead
    \/ WriteDateMap


\* ------------------------------------------------------------------------
\* 5_anonymize.py: strings, file names, paths
\* ------------------------------------------------------------------------

\* An Optional[str]: None or a string.
NoneStr == [some |-> FALSE, val |-> <<>>]
Some(s) == [some |-> TRUE, val |-> s]

\* A cell pandas holds as NaN (an empty cell, a value map() did not find).
NaN == <<"NaN">>

\* s.split(sep) for a one-character separator.
RECURSIVE Split(_, _)
Split(s, sep) ==
    IF \A i \in 1..Len(s) : s[i] # sep
    THEN <<s>>
    ELSE LET i == CHOOSE k \in 1..Len(s) :
                     s[k] = sep /\ \A j \in 1..(k - 1) : s[j] # sep
         IN  <<SubSeq(s, 1, i - 1)>> \o Split(SubSeq(s, i + 1, Len(s)), sep)

\* sep.join(parts)
RECURSIVE Join(_, _)
Join(parts, sep) ==
    IF parts = <<>> THEN <<>>
    ELSE IF Len(parts) = 1 THEN parts[1]
    ELSE parts[1] \o <<sep>> \o Join(Tail(parts), sep)

\* s.endswith(suffix)
EndsWith(s, suffix) ==
    /\ Len(s) >= Len(suffix)
    /\ SubSeq(s, Len(s) - Len(suffix) + 1, Len(s)) = suffix

UpperCase == Alphabet

LowerCase ==
    <<"a", "b", "c", "d", "e", "f", "g", "h", "i", "j", "k", "l", "m",
      "n", "o", "p", "q", "r", "s", "t", "u", "v", "w", "x", "y", "z">>

\* s.lower()
Lower(s) ==
    [i \in 1..Len(s) |->
        IF \E k \in 1..26 : UpperCase[k] = s[i]
        THEN LowerCase[CHOOSE k \in 1..26 : UpperCase[k] = s[i]]
        ELSE s[i]]

\* sub in s
Contains(s, sub) ==
    \E i \in 1..(Len(s) - Len(sub) + 1) : SubSeq(s, i, i + Len(sub) - 1) = sub

\* get_subject_id_from_filename: the second hyphen segment, None without one.
get_subject_id_from_filename(file_name) ==
    LET parts == Split(file_name, "-")
    IN  IF Len(parts) < 2 THEN NoneStr ELSE Some(parts[2])

\* What generate_anoymized_file_name does: the name it returns or the
\* ValueError it raises.
Returned(name) == [raised |-> "none", name |-> name]
Raised(exc) == [raised |-> exc, name |-> <<>>]

\* Mutation of generate_anoymized_file_name: no exception for metadata.csv.
generate_file_name_no_metadata(file_name, smap, map) ==
    LET parts == Split(file_name, "-")
    IN  IF Len(parts) < 2 THEN Raised("ValueError")
        ELSE IF parts[1] \notin DOMAIN map THEN Raised("ValueError")
        ELSE IF parts[2] \notin DOMAIN smap THEN Raised("ValueError")
        ELSE Returned(map[parts[1]] \o <<"-">> \o smap[parts[2]] \o <<"-">>
                         \o Join(SubSeq(parts, 3, Len(parts)), "-"))

\* Mutation of generate_anoymized_file_name: the suffix is joined without
\* hyphens.
generate_file_name_plain_join(file_name, smap, map) ==
    LET parts == Split(file_name, "-")
    IN  IF Len(parts) < 2
        THEN IF EndsWith(file_name, <<"m", "e", "t", "a", "d", "a", "t", "a", ".", "c", "s", "v">>)
             THEN Returned(file_name)
             ELSE Raised("ValueError")
        ELSE IF parts[1] \notin DOMAIN map THEN Raised("ValueError")
        ELSE IF parts[2] \notin DOMAIN smap THEN Raised("ValueError")
        ELSE Returned(map[parts[1]] \o <<"-">> \o smap[parts[2]] \o <<"-">>
                         \o Join(SubSeq(parts, 3, Len(parts)), ""))

generate_anoymized_file_name(file_name, smap, map) ==
    LET parts == Split(file_name, "-")
    IN  IF Len(parts) < 2
        THEN \* parts[1] raises IndexError
             IF EndsWith(file_name, <<"m", "e", "t", "a", "d", "a", "t", "a", ".", "c", "s", "v">>)
             THEN Returned(file_name)
             ELSE Raised("ValueError")
        ELSE IF parts[1] \notin DOMAIN map THEN Raised("ValueError")
        ELSE IF parts[2] \notin DOMAIN smap THEN Raised("ValueError")
        ELSE Returned(map[parts[1]] \o <<"-">> \o smap[parts[2]] \o <<"-">>
                         \o Join(SubSeq(parts, 3, Len(parts)), "-"))

\* A path: the directories from the top and the file name.
Path(dir, name) == [dir |-> dir, name |-> name]

\* get_output_path: file_path relative to data_root, under output_root.
get_output_path(file_path, data_root, output_root) ==
    Path(output_root
            \o SubSeq(file_path.dir, Len(data_root) + 1, Len(file_path.dir)),
         file_path.name)


\* ------------------------------------------------------------------------
\* 5_anonymize.py: dates
\* ------------------------------------------------------------------------

DigitChars == <<"0", "1", "2", "3", "4", "5", "6", "7", "8", "9">>

IsDigits(s) == \A i \in 1..Len(s) : \E k \in 1..10 : DigitChars[k] = s[i]

DigitVal(c) == (CHOOSE k \in 1..10 : DigitChars[k] = c) - 1

\* int(s) for a string of digits.
RECURSIVE Num(_)
Num(s) ==
    IF s = <<>> THEN 0
    ELSE Num(SubSeq(s, 1, Len(s) - 1)) * 10 + DigitVal(s[Len(s)])

\* n as width digits, zero-padded (strftime's %Y, %m, %d, %H, %M, %S).
Pad(n, width) ==
    [i \in 1..width |-> DigitChars[((n \div Pow(10, width - i)) % 10) + 1]]

IsLeap(y) == (y % 4 = 0 /\ y % 100 # 0) \/ y % 400 = 0

DaysInMonth(y, m) ==
    IF m = 2 THEN (IF IsLeap(y) THEN 29 ELSE 28)
    ELSE IF m \in {4, 6, 9, 11} THEN 30 ELSE 31

\* Days since 1970-01-01 of a date of the proleptic Gregorian calendar.
DaysFromCivil(y, m, d) ==
    LET yy == IF m <= 2 THEN y - 1 ELSE y
        era == yy \div 400
        yoe == yy - era * 400
        mp == IF m > 2 THEN m - 3 ELSE m + 9
        doy == (153 * mp + 2) \div 5 + d - 1
        doe == yoe * 365 + yoe \div 4 - yoe \div 100 + doy
    IN  era * 146097 + doe - 719468

\* The date of a number of days since 1970-01-01.
CivilFromDays(z) ==
    LET zz == z + 719468
        era == zz \div 146097
        doe == zz - era * 146097
        yoe == (doe - doe \div 1460 + doe \div 36524 - doe \div 146096) \div 365
        doy == doe - (365 * yoe + yoe \div 4 - yoe \div 100)
        mp == (5 * doy + 2) \div 153
        d == doy - (153 * mp + 2) \div 5 + 1
        m == IF mp < 10 THEN mp + 3 ELSE mp - 9
        y == yoe + era * 400 + (IF m <= 2 THEN 1 ELSE 0)
    IN  [year |-> y, month |-> m, day |-> d]

\* The date a time without a date is parsed to: the day of the run.
Today == DaysFromCivil(2024, 6, 15)

\* A pd.Timestamp: days since 1970-01-01 and seconds since midnight; ok is
\* FALSE when the value does not parse (to_datetime raises ValueError).
Timestamp(days, secs) == [ok |-> TRUE, days |-> days, secs |-> secs]
NotADate == [ok |-> FALSE, days |-> 0, secs |-> 0]

\* YYYY-MM-DD with a month and a day that exist.
IsDateText(s) ==
    /\ Len(s) = 10
    /\ s[5] = "-"
    /\ s[8] = "-"
    /\ IsDigits(SubSeq(s, 1, 4) \o SubSeq(s, 6, 7) \o SubSeq(s, 9, 10))
    /\ Num(SubSeq(s, 1, 4)) >= 1
    /\ Num(SubSeq(s, 6, 7)) \in 1..12
    /\ Num(SubSeq(s, 9, 10)) \in
          1..DaysInMonth(Num(SubSeq(s, 1, 4)), Num(SubSeq(s, 6, 7)))

\* HH:MM:SS
IsTimeText(s) ==
    /\ Len(s) = 8
    /\ s[3] = ":"
    /\ s[6] = ":"
    /\ IsDigits(SubSeq(s, 1, 2) \o SubSeq(s, 4, 5) \o SubSeq(s, 7, 8))
    /\ Num(SubSeq(s, 1, 2)) < 24
    /\ Num(SubSeq(s, 4, 5)) < 60
    /\ Num(SubSeq(s, 7, 8)) < 60

DateDays(s) ==
    DaysFromCivil(Num(SubSeq(s, 1, 4)), Num(SubSeq(s, 6, 7)),
                  Num(SubSeq(s, 9, 10)))

TimeSecs(s) ==
    Num(SubSeq(s, 1, 2)) * 3600 + Num(SubSeq(s, 4, 5)) * 60
       + Num(SubSeq(s, 7, 8))

\* pd.to_datetime(date) for the ISO forms of a date, a timestamp and a time.
to_datetime(date) ==
    IF IsDateText(date) THEN Timestamp(DateDays(date), 0)
    ELSE IF /\ Len(date) = 19
            /\ date[11] = " "
            /\ IsDateText(SubSeq(date, 1, 10))
            /\ IsTimeText(SubSeq(date, 12, 19))
    THEN Timestamp(DateDays(SubSeq(date, 1, 10)),
                   TimeSecs(SubSeq(date, 12, 19)))
    ELSE IF IsTimeText(date) THEN Timestamp(Today, TimeSecs(date))
    ELSE NotADate

\* ts + pd.DateOffset(days=offset)
AddDays(ts, offset) == Timestamp(ts.days + offset, ts.secs)

\* strftime("%Y-%m-%d")
FormatDate(ts) ==
    LET c == CivilFromDays(ts.days)
    IN  Pad(c.year, 4) \o <<"-">> \o Pad(c.month, 2) \o <<"-">> \o Pad(c.day, 2)

\* strftime("%H:%M:%S")
FormatTime(ts) ==
    Pad(ts.secs \div 3600, 2) \o <<":">> \o Pad((ts.secs \div 60) % 60, 2)
       \o <<":">> \o Pad(ts.secs % 60, 2)

subject_id_col == <<"s", "u", "b", "j", "e", "c", "t", "_", "i", "d">>
timeofday == <<"t", "i", "m", "e", "o", "f", "d", "a", "y">>
site_col == <<"s", "i", "t", "e">>

\* Mutation of Serialize: always the full timestamp.
SerializeFull(new_date, col) ==
    FormatDate(new_date) \o <<" ">> \o FormatTime(new_date)

\* The serialization of the shifted value.
Serialize(new_date, col) ==
    IF col = timeofday THEN FormatTime(new_date)
    ELSE IF new_date.secs # 0
    THEN FormatDate(new_date) \o <<" ">> \o FormatTime(new_date)
    ELSE FormatDate(new_date)

\* Mutation of ResolveSubject: the subject_id column of the row comes first.
ResolveSubjectRowFirst(row, subject_id) ==
    IF subject_id_col \in DOMAIN row THEN Some(row[subject_id_col])
    ELSE IF ~subject_id.some \/ Len(subject_id.val) # 7 THEN NoneStr
    ELSE subject_id

\* The subject whose offset get_anonymized_date applies; None when the
\* function returns row[col] at once.
ResolveSubject(row, subject_id) ==
    IF ~subject_id.some \/ Len(subject_id.val) # 7
    THEN IF subject_id_col \in DOMAIN row
         THEN Some(row[subject_id_col])
         ELSE NoneStr
    ELSE subject_id

\* The message get_anonymized_date adds to WARNINGS, if any.
DateWarning(row, subject_id, date_map) ==
    LET s == ResolveSubject(row, subject_id)
    IN  IF s.some /\ s.val \notin DOMAIN date_map THEN {s.val} ELSE {}

get_anonymized_date(row, col, date_map, subject_id) ==
    LET s == ResolveSubject(row, subject_id)
        date == row[col]
    IN  IF ~s.some THEN date
        ELSE IF s.val \notin DOMAIN date_map THEN date
        ELSE IF ~to_datetime(date).ok THEN date
        ELSE Serialize(AddDays(to_datetime(date), date_map[s.val]), col)


\* ------------------------------------------------------------------------
\* One call of get_anonymized_date from anonymize_csv (SpecCell)
\* ------------------------------------------------------------------------

interview_date == <<"i", "n", "t", "e", "r", "v", "i", "e", "w", "_", "d", "a", "t", "e">>

PR001 == <<"P", "R", "0", "0", "1">>

\* File names anonymize_csv may meet.
CellFileNames ==
    {<<"P", "R", "-", "P", "R", "0", "0", "0", "0", "1", "-", "v", "i", "s", "i", "t", ".", "c", "s", "v">>, <<"P", "R", "-", "P", "R", "0", "0", "0", "0", "2", "-", "v", "i", "s", "i", "t", ".", "c", "s", "v">>, <<"M", "E", "-", "X", "X", "0", "0", "0", "0", "9", "-", "a", ".", "c", "s", "v">>,
     <<"P", "R", "-", "P", "R", "0", "0", "1", "-", "v", "i", "s", "i", "t", ".", "c", "s", "v">>, <<"m", "e", "t", "a", "d", "a", "t", "a", ".", "c", "s", "v">>}

\* Cells of a table read with dtype=str.
CellTexts ==
    {<<"2", "0", "2", "3", "-", "0", "1", "-", "0", "1">>, <<"2", "0", "2", "3", "-", "0", "1", "-", "0", "1", " ", "1", "3", ":", "4", "5", ":", "0", "0">>, <<"2", "0", "2", "3", "-", "1", "2", "-", "2", "8">>, <<"2", "0", "2", "4", "-", "0", "2", "-", "2", "5", " ", "0", "0", ":", "0", "0", ":", "0", "0">>,
     <<"2", "0", "2", "3", "-", "0", "3", "-", "0", "5">>, <<"1", "3", ":", "4", "5", ":", "0", "0">>, <<"2", "0", "2", "3", "-", "0", "2", "-", "3", "0">>, <<"n", "/", "a">>, NaN}

\* A loaded subject_date_mapping.json.
CellDateMap ==
    (PR00001 :> 7) @@ (PR00002 :> (0 - 7)) @@ (PR001 :> 14)

\* The rows: a column col holding text, with or without a subject_id column.
CellRows(col, text) ==
    {(col :> text)} \cup
    {(col :> text) @@ (subject_id_col :> s) :
        s \in {PR00001, PR00002, PR001, XX00009}}

DrawCell ==
    /\ cell_pc = "input"
    /\ cell_file_name \in CellFileNames
    /\ cell_col \in {interview_date, timeofday}
    /\ \E text \in CellTexts : cell_row \in CellRows(cell_col, text)
    /\ cell_date_map = CellDateMap
    /\ cell_out = <<>>

\* subject_id = get_subject_id_from_filename(file_path.name) and the call of
\* get_anonymized_date that anonymize_df makes for the row and the column.
ShiftCell ==
    /\ cell_pc = "input"
    /\ cell_out' = get_anonymized_date(
                      cell_row, cell_col, cell_date_map,
                      get_subject_id_from_filename(cell_file_name))
    /\ cell_pc' = "done"
    /\ UNCHANGED <<cell_file_name, cell_row, cell_col, cell_date_map>>


\* ------------------------------------------------------------------------
\* 5_anonymize.py: anonymize_df, anonymize_csv, anonymize_data
\* ------------------------------------------------------------------------

\* A DataFrame read with dtype=str: its columns and its rows in order.
DataFrame(columns, rows) == [columns |-> columns, rows |-> rows]

\* df[col] = df.apply(get_anonymized_date(row, col, ...), axis=1) for each
\* column in order; a later column sees the values of the earlier ones.
RECURSIVE ShiftColumns(_, _, _, _)
ShiftColumns(rows, cols, date_map, subject_id) ==
    IF cols = <<>> THEN rows
    ELSE ShiftColumns(
            [i \in 1..Len(rows) |->
                [rows[i] EXCEPT ![Head(cols)] =
                    get_anonymized_date(rows[i], Head(cols), date_map,
                                        subject_id)]],
            Tail(cols), date_map, subject_id)

\* The messages the calls of get_anonymized_date add to WARNINGS.
RECURSIVE ShiftWarnings(_, _, _, _)
ShiftWarnings(rows, cols, date_map, subject_id) ==
    IF cols = <<>> THEN {}
    ELSE UNION {DateWarning(rows[i], subject_id, date_map) :
                   i \in 1..Len(rows)}
         \cup ShiftWarnings(
                 ShiftColumns(rows, <<Head(cols)>>, date_map, subject_id),
                 Tail(cols), date_map, subject_id)

\* [c for c in df.columns if "subject" in c.lower()]
RECURSIVE SubjectColumns(_)
SubjectColumns(cols) ==
    IF cols = <<>> THEN <<>>
    ELSE (IF Contains(Lower(Head(cols)), <<"s", "u", "b", "j", "e", "c", "t">>)
          THEN <<Head(cols)>> ELSE <<>>) \o SubjectColumns(Tail(cols))

\* df[col].map(mapping): values the mapping does not have become NaN.
MapColumn(rows, col, mapping) ==
    [i \in 1..Len(rows) |->
        [rows[i] EXCEPT ![col] =
            IF rows[i][col] \in DOMAIN mapping
            THEN mapping[rows[i][col]] ELSE NaN]]

\* df.dropna(subset=[col])
DropNa(rows, col) ==
    LET Keep(r) == r[col] # NaN
    IN  SelectSeq(rows, Keep)

\* for subject_col in subject_cols: map through subject_map, drop the NaN.
RECURSIVE MapSubjects(_, _, _)
MapSubjects(rows, subject_cols, smap) ==
    IF subject_cols = <<>> THEN rows
    ELSE MapSubjects(
            DropNa(MapColumn(rows, Head(subject_cols), smap),
                   Head(subject_cols)),
            Tail(subject_cols), smap)

\* df["site"] = df["site"].map(site_map); KeyError without the column.
MapSite(rows, cols, map) ==
    IF \E i \in 1..Len(cols) : cols[i] = site_col
    THEN MapColumn(rows, site_col, map)
    ELSE rows

anonymize_df(df, smap, map, date_map, subject_id) ==
    DataFrame(
       df.columns,
       MapSite(
          MapSubjects(
             ShiftColumns(df.rows, df.columns, date_map, subject_id),
             SubjectColumns(df.columns), smap),
          df.columns, map))

data_root == <<"srv", "data">>
output_root == <<"srv", "out">>

\* Mutation of CaughtByAnonymizeCsv: the ValueError is not caught.
CaughtByNothing(exc) == FALSE

\* except ValueError as e
CaughtByAnonymizeCsv(exc) == exc = "ValueError"

\* What anonymize_csv does with a file: the name it computes, the frame
\* it would write and where.
anonymize_csv(file, loaded) ==
    LET df == anonymize_df(file.df, loaded.subject_map, loaded.site_map,
                           loaded.date_map,
                           get_subject_id_from_filename(file.path.name))
        output_path == get_output_path(file.path, data_root, output_root)
        anonymized == generate_anoymized_file_name(
                         output_path.name, loaded.subject_map, loaded.site_map)
    IN  [raised |-> anonymized.raised,
         src |-> file.path,
         dst |-> Path(output_path.dir, anonymized.name),
         df |-> df,
         warnings |-> ShiftWarnings(
                         file.df.rows, file.df.columns, loaded.date_map,
                         get_subject_id_from_filename(file.path.name))]


\* ---- the source tree and the loaded maps

Subject_col == <<"S", "u", "b", "j", "e", "c", "t">>

Row2(c1, v1, c2, v2) == (c1 :> v1) @@ (c2 :> v2)
Row3(c1, v1, c2, v2, c3, v3) == (c1 :> v1) @@ (c2 :> v2) @@ (c3 :> v3)

InputFile(dir, name, df) == [path |-> Path(dir, name), df |-> df]

VisitFrame ==
    DataFrame(<<subject_id_col, interview_date>>,
       <<Row2(subject_id_col, PR00001, interview_date, <<"2", "0", "2", "3", "-", "0", "1", "-", "0", "1">>),
         Row2(subject_id_col, XX00009, interview_date, <<"2", "0", "2", "3", "-", "1", "2", "-", "2", "8">>),
         Row2(subject_id_col, PR00002, interview_date,
              <<"2", "0", "2", "3", "-", "0", "3", "-", "0", "5", " ", "1", "3", ":", "4", "5", ":", "0", "0">>)>>)

SiteFrame ==
    DataFrame(<<site_col, timeofday, Subject_col>>,
       <<Row3(site_col, <<"M", "E">>, timeofday, <<"1", "3", ":", "4", "5", ":", "0", "0">>, Subject_col, ME00001),
         Row3(site_col, <<"L", "A">>, timeofday, <<"n", "/", "a">>, Subject_col, NaN),
         Row3(site_col, <<"L", "A">>, timeofday, <<"2", "0", "2", "3", "-", "0", "1", "-", "0", "1", " ", "0", "8", ":", "0", "0", ":", "0", "0">>,
              Subject_col, PR00001)>>)

MetaFrame ==
    DataFrame(<<Subject_col, site_col>>,
       <<Row2(Subject_col, PR00001, site_col, <<"P", "R">>),
         Row2(Subject_col, ME00001, site_col, <<"M", "E">>)>>)

DateFrame ==
    DataFrame(<<interview_date>>, <<(interview_date :> <<"2", "0", "2", "4", "-", "0", "2", "-", "2", "5">>)>>)

\* The files the source tree may hold.
InputFiles ==
    {InputFile(data_root, <<"P", "R", "-", "P", "R", "0", "0", "0", "0", "1", "-", "v", "i", "s", "i", "t", ".", "c", "s", "v">>, VisitFrame),
     InputFile(data_root \o <<"sub">>, <<"M", "E", "-", "M", "E", "0", "0", "0", "0", "1", "-", "a", "-", "b", ".", "c", "s", "v">>, SiteFrame),
     InputFile(data_root, <<"m", "e", "t", "a", "d", "a", "t", "a", ".", "c", "s", "v">>, MetaFrame),
     InputFile(data_root, <<"s", "t", "u", "d", "y", "-", "m", "e", "t", "a", "d", "a", "t", "a", ".", "c", "s", "v">>, MetaFrame),
     InputFile(data_root \o <<"sub">>, <<"n", "o", "t", "e", "s", ".", "c", "s", "v">>, DateFrame),
     InputFile(data_root, <<"r", "e", "a", "d", "m", "e", ".", "t", "x", "t">>, DateFrame),
     InputFile(data_root, <<"P", "R", "-", "X", "X", "0", "0", "0", "0", "9", "-", "v", "i", "s", "i", "t", ".", "c", "s", "v">>, VisitFrame),
     InputFile(data_root \o <<"sub">>, <<"L", "A", "-", "P", "R", "0", "0", "0", "0", "1", "-", "x", ".", "c", "s", "v">>, DateFrame),
     InputFile(data_root, <<"c", "o", "m", "b", "i", "n", "e", "d", "-", "P", "R", "O", "N", "E", "T", "-", "f", "o", "r", "m", ".", "c", "s", "v">>, DateFrame),
     InputFile(data_root, <<"c", "o", "m", "b", "i", "n", "e", "d", "-", "P", "r", "o", "N", "E", "T", "-", "f", "o", "r", "m", ".", "c", "s", "v">>, MetaFrame),
     InputFile(data_root, <<"P", "R", "-", "P", "R", "0", "0", "0", "0", "2", ".", "c", "s", "v">>, DateFrame)}

\* The files of a tree in the order os.walk visits them: no file twice.
Trees ==
    {t \in UNION {[1..n -> InputFiles] : n \in 1..MaxFiles} :
        \A i, j \in 1..Len(t) : i # j => t[i] # t[j]}

SiteId(n) == NthString(Alphabet, SiteIdLen, n)
SubjectId(n) == NthString(NonZeroDigits, SubjectIdLen, n)

\* Maps as the three builders persist them: two sites and their subjects.
FullMaps ==
    LET map == FinishSiteMap((<<"P", "R">> :> SiteId(1)) @@ (<<"M", "E">> :> SiteId(2)),
                             {<<"P", "R">>, <<"M", "E">>}, FALSE)
    IN  [site_map |-> map,
         subject_map |->
            FinishSubjectMap(
               (PR00001 :> SubjectCode(SiteId(1), SubjectId(0)))
                  @@ (PR00002 :> SubjectCode(SiteId(1), SubjectId(1)))
                  @@ (ME00001 :> SubjectCode(SiteId(2), SubjectId(0)))
                  @@ (PRONET :> SubjectCode(SiteId(1), SubjectId(2))),
               map),
         date_map |-> (PR00001 :> 7) @@ (PR00002 :> (0 - 7))
                         @@ (ME00001 :> 14)]

\* Maps built from a source that has one site and one subject only.
PartialMaps ==
    LET map == FinishSiteMap((<<"P", "R">> :> SiteId(0)), {<<"P", "R">>}, FALSE)
    IN  [site_map |-> map,
         subject_map |->
            FinishSubjectMap(
               (PR00001 :> SubjectCode(SiteId(0), SubjectId(1))), map),
         date_map |-> (PR00001 :> (0 - 14))]

\* The state when anonymize_data has loaded the maps and starts the walk.
StartWalk ==
    /\ anon_pc = "walk"
    /\ tree \in Trees
    /\ maps \in {FullMaps, PartialMaps}
    /\ walk_pos = 1
    /\ writes = <<>>
    /\ log = <<>>
    /\ WARNINGS = {}

\* No anonymization is under way.
NoWalk ==
    /\ anon_pc = "idle"
    /\ tree = <<>>
    /\ maps = [site_map |-> EmptyDict, subject_map |-> EmptyDict,
               date_map |-> EmptyDict]
    /\ walk_pos = 0
    /\ writes = <<>>
    /\ log = <<>>
    /\ WARNINGS = {}

\* for file in files: a file that does not end with ".csv" is passed over.
SkipOtherFile ==
    /\ anon_pc = "walk"
    /\ walk_pos <= Len(tree)
    /\ ~EndsWith(tree[walk_pos].path.name, <<".", "c", "s", "v">>)
    /\ walk_pos' = walk_pos + 1
    /\ UNCHANGED <<anon_pc, tree, maps, writes, log, WARNINGS>>

\* for file in files: anonymize_csv on a .csv file. The frame is written
\* under the anonymized name, or the file is ignored with a warning when
\* generate_anoymized_file_name raises ValueError.
AnonymizeCsv ==
    /\ anon_pc = "walk"
    /\ walk_pos <= Len(tree)
    /\ EndsWith(tree[walk_pos].path.name, <<".", "c", "s", "v">>)
    /\ LET r == anonymize_csv(tree[walk_pos], maps)
       IN  /\ WARNINGS' = WARNINGS \cup r.warnings
           /\ IF r.raised = "none"
              THEN /\ writes' = Append(writes,
                                   [src |-> r.src, dst |-> r.dst, df |-> r.df])
                   /\ log' = log
                   /\ walk_pos' = walk_pos + 1
                   /\ anon_pc' = anon_pc
              ELSE IF CaughtByAnonymizeCsv(r.raised)
              THEN /\ log' = Append(log, r.src)
                   /\ writes' = writes
                   /\ walk_pos' = walk_pos + 1
                   /\ anon_pc' = anon_pc
              ELSE /\ anon_pc' = "aborted"
                   /\ UNCHANGED <<writes, log, walk_pos>>
    /\ UNCHANGED <<tree, maps>>

\* os.walk is exhausted: anonymize_data returns.
WalkDone ==
    /\ anon_pc = "walk"
    /\ walk_pos > Len(tree)
    /\ anon_pc' = "done"
    /\ UNCHANGED <<tree, maps, walk_pos, writes, log, WARNINGS>>

\* ---- anonymize_data from its start: the maps are loaded from mappings_root

\* The three files of mappings_root.
MapFileNames ==
    {<<"s","u","b","j","e","c","t","_","m","a","p","p","i","n","g",".","j","s","o","n">>,
     <<"s","i","t","e","_","m","a","p","p","i","n","g",".","j","s","o","n">>,
     <<"s","u","b","j","e","c","t","_","d","a","t","e","_","m","a","p","p","i","n","g",
       ".","j","s","o","n">>}

MapFilesExist ==
    /\ subject_mapping_json.exists
    /\ site_mapping_json.exists
    /\ subject_date_mapping_json.exists

\* utils.load_json on a path that does not exist: anonymize_data ends with
\* the exception before the walk starts.
MapFileMissing ==
    /\ anon_pc = "idle"
    /\ ~MapFilesExist
    /\ anon_pc' = "aborted"
    /\ UNCHANGED <<tree, maps, walk_pos, writes, log, WARNINGS>>

\* The three maps are loaded and os.walk(data_root) starts.
LoadMaps ==
    /\ anon_pc = "idle"
    /\ MapFilesExist
    /\ maps' = [site_map |-> site_mapping_json.data,
                subject_map |-> subject_mapping_json.data,
                date_map |-> subject_date_mapping_json.data]
    /\ tree' \in Trees
    /\ walk_pos' = 1
    /\ anon_pc' = "walk"
    /\ UNCHANGED <<writes, log, WARNINGS>>

AnonymizeStage ==
    \/ MapFileMissing
    \/ LoadMaps
    \/ SkipOtherFile
    \/ AnonymizeCsv
    \/ WalkDone

InitMaps ==
    /\ site_mapping_json = NoFile
    /\ subject_mapping_json = NoFile
    /\ pc = "idle"
    /\ result = [s \in Scripts |-> "none"]
    /\ NoLocals

InitDates ==
    /\ subject_date_mapping_json = NoFile
    /\ date_sources = <<>>
    /\ date_addons = <<>>
    /\ subject_date_offset_map = EmptyDict

\* No call of get_anonymized_date is under way.
NoCell ==
    /\ cell_pc = "idle"
    /\ cell_file_name = <<>>
    /\ cell_row = EmptyDict
    /\ cell_col = <<>>
    /\ cell_date_map = EmptyDict
    /\ cell_out = <<>>

Init == InitMaps /\ InitDates /\ NoCell /\ NoWalk

Next ==
    \/ SiteStage /\ UNCHANGED <<dateVars, cellVars, anonVars>>
    \/ SubjectStage /\ UNCHANGED <<dateVars, cellVars, anonVars>>

Spec == Init /\ [][Next]_vars

\* The date-offset stage alone.
NextDates == DatesStage /\ UNCHANGED <<cellVars, anonVars>>

SpecDates == Init /\ [][NextDates]_vars

\* One call of get_anonymized_date on drawn inputs.
NextCell == ShiftCell /\ UNCHANGED <<mapVars, dateVars, anonVars>>

InitCell == InitMaps /\ InitDates /\ DrawCell /\ NoWalk

SpecCell == InitCell /\ [][NextCell]_vars

\* One run of anonymize_data over a drawn tree with drawn maps.
NextAnon ==
    \/ SkipOtherFile /\ UNCHANGED <<mapVars, dateVars, cellVars>>
    \/ AnonymizeCsv /\ UNCHANGED <<mapVars, dateVars, cellVars>>
    \/ WalkDone /\ UNCHANGED <<mapVars, dateVars, cellVars>>

InitAnon == InitMaps /\ InitDates /\ NoCell /\ StartWalk

SpecAnon == InitAnon /\ [][NextAnon]_vars

\* The stages as separate invocations, one at a time and in any order, on a
\* mappings_root that is empty or holds the files of an earlier complete run.
EarlierRuns ==
    {[site_map |-> NoFile, subject_map |-> NoFile, date_map |-> NoFile],
     [site_map |-> File(PartialMaps.site_map),
      subject_map |-> File(PartialMaps.subject_map),
      date_map |-> File(PartialMaps.date_map)]}

InitRuns ==
    /\ \E d \in EarlierRuns :
          /\ site_mapping_json = d.site_map
          /\ subject_mapping_json = d.subject_map
          /\ subject_date_mapping_json = d.date_map
    /\ pc = "idle"
    /\ result = [s \in Scripts |-> "none"]
    /\ NoLocals
    /\ date_sources = <<>>
    /\ date_addons = <<>>
    /\ subject_date_offset_map = EmptyDict
    /\ NoCell
    /\ NoWalk

\* The number of invocations started so far.
RunsStarted ==
    Cardinality({s \in Scripts : result[s] # "none"})
       + (IF pc # "idle" THEN 1 ELSE 0)
       + (IF anon_pc # "idle" THEN 1 ELSE 0)

\* A builder script may take a step: it is running, or it may be started.
BuilderTurn == anon_pc # "walk" /\ (pc # "idle" \/ RunsStarted < MaxRuns)

\* anonymize_data may take a step: it is running, or it may be started.
AnonymizeTurn == pc = "idle" /\ (anon_pc = "walk" \/ RunsStarted < MaxRuns)

NextRuns ==
    \/ BuilderTurn /\ SiteStage
          /\ UNCHANGED <<dateVars, cellVars, anonVars>>
    \/ BuilderTurn /\ SubjectStage
          /\ UNCHANGED <<dateVars, cellVars, anonVars>>
    \/ BuilderTurn /\ DatesStage
          /\ UNCHANGED <<cellVars, anonVars>>
    \/ AnonymizeTurn /\ AnonymizeStage
          /\ UNCHANGED <<mapVars, dateVars, cellVars>>

SpecRuns == InitRuns /\ [][NextRuns]_vars

\* get_site_map and get_subject_map called on drawn inputs, the candidates
\* drawn by a fair random source. The sets of facilities and of participants
\* of one facility go up to one more than the codes generate_site_id and
\* generate_subject_id can give.
Facilities == {NthString(Alphabet, SiteIdLen, 675 - n) : n \in 0..NSiteIds}

Participants ==
    {<<"P", "R">> \o Pad(k, SubjectIdLen) : k \in 1..(NSubjectIds + 1)}
       \cup {ME00001}

InitRetry ==
    /\ site_mapping_json = NoFile
    /\ subject_mapping_json = NoFile
    /\ result = [s \in Scripts |-> "none"]
    /\ sources = <<>>
    /\ skip_site_map = FALSE
    /\ addon_subjects = <<>>
    /\ site = None
    /\ site_id = None
    /\ subject = None
    /\ subject_code = None
    /\ subject_map = EmptyDict
    /\ \/ /\ pc = "site_loop"
          /\ sites \in SUBSET Facilities
          /\ sites_todo = sites
          /\ site_map = EmptyDict
          /\ subjects = {}
          /\ subjects_todo = {}
       \/ /\ pc = "subject_loop"
          /\ sites = {}
          /\ sites_todo = {}
          /\ site_map = PartialMaps.site_map
          /\ subjects \in SUBSET Participants
          /\ subjects_todo = subjects
    /\ InitDates
    /\ NoCell
    /\ NoWalk

NextRetry ==
    \/ SiteLoopNext /\ UNCHANGED <<dateVars, cellVars, anonVars>>
    \/ SiteIdRetry /\ UNCHANGED <<dateVars, cellVars, anonVars>>
    \/ SiteIdAssign /\ UNCHANGED <<dateVars, cellVars, anonVars>>
    \/ GetSiteMapReturn /\ UNCHANGED <<dateVars, cellVars, anonVars>>
    \/ SubjectSiteNotFound /\ UNCHANGED <<dateVars, cellVars, anonVars>>
    \/ SubjectLoopNext /\ UNCHANGED <<dateVars, cellVars, anonVars>>
    \/ SubjectCodeRetry /\ UNCHANGED <<dateVars, cellVars, anonVars>>
    \/ SubjectCodeAssign /\ UNCHANGED <<dateVars, cellVars, anonVars>>
    \/ GetSubjectMapReturn /\ UNCHANGED <<dateVars, cellVars, anonVars>>

\* The interpreter keeps running, and a random source that is asked again
\* and again gives every candidate again and again: a loop that can draw a
\* free candidate infinitely often does draw one.
DrawFreeSiteId ==
    /\ SiteIdRetry
    /\ ~SiteIdTaken(site_id', site_map)
    /\ UNCHANGED <<dateVars, cellVars, anonVars>>

DrawFreeSubjectCode ==
    /\ SubjectCodeRetry
    /\ ~SubjectCodeTaken(subject_code', subject_map)
    /\ UNCHANGED <<dateVars, cellVars, anonVars>>

FairChoice ==
    /\ WF_vars(NextRetry)
    /\ SF_vars(DrawFreeSiteId)
    /\ SF_vars(DrawFreeSubjectCode)

SpecRetry == InitRetry /\ [][NextRetry]_vars /\ FairChoice

\* ------------------------------------------------------------------------
\* Properties of the map-building stages (checked under Spec)
\* ------------------------------------------------------------------------

Injective(f) ==
    \A a, b \in DOMAIN f : a # b => f[a] # f[b]

AllIn(s, chars) == \A i \in 1..Len(s) : s[i] \in chars

\* C1: when get_site_map returns, every facility of the input set has a code
\* of exactly 2 characters of A-Z and no two facilities share a code.
C1_SiteCodes ==
    pc = "site_map_ready" =>
        /\ DOMAIN site_map = sites
        /\ \A s \in sites :
              /\ Len(site_map[s]) = 2
              /\ AllIn(site_map[s], Range(Alphabet))
        /\ Injective(site_map)

C1_Witness ==
    /\ pc = "site_map_ready"
    /\ Cardinality(sites) >= 2

\* C2: when get_subject_map returns, every participant whose 2-character
\* prefix is a key of the site map has the code site_map[prefix] followed by
\* exactly 5 digits of 1..9, and no two participants share a code.
C2_SubjectCodes ==
    pc = "subject_map_ready" =>
        /\ \A s \in subjects :
              Prefix2(s) \in DOMAIN site_map =>
                 /\ s \in DOMAIN subject_map
                 /\ LET code == subject_map[s]
                        sid == site_map[Prefix2(s)]
                    IN  /\ Len(code) = Len(sid) + 5
                        /\ SubSeq(code, 1, Len(sid)) = sid
                        /\ AllIn(SubSeq(code, Len(sid) + 1, Len(code)),
                                 {"1", "2", "3", "4", "5", "6", "7", "8", "9"})
        /\ Injective(subject_map)

C2_Witness ==
    /\ pc = "subject_map_ready"
    /\ {PR00001, PR00002, ME00001} \subseteq DOMAIN subject_map

\* C3 as stated: no two different keys of the persisted subject_mapping.json
\* have the same value.
C3_AllValuesDistinct ==
    result["subject"] = "ok" => Injective(subject_mapping_json.data)

\* C3 as amended: two different keys of the persisted subject_mapping.json
\* have the same value only when they are the two spellings of one
\* organizational label (PRESCIENT/Prescient, PRONET/ProNET).
C3_ValuesDistinctUpToLabels ==
    result["subject"] = "ok" =>
        \A a, b \in DOMAIN subject_mapping_json.data :
            (a # b /\ subject_mapping_json.data[a] = subject_mapping_json.data[b])
               => \/ {a, b} = {PRESCIENT, Prescient}
                  \/ {a, b} = {PRONET, ProNET}

C3_Witness ==
    /\ result["subject"] = "ok"
    /\ {PR00001, PR00002, <<"P", "R">>, combined, PRESCIENT}
          \subseteq DOMAIN subject_mapping_json.data

\* C4: the persisted subject map holds combined -> combined, every literal
\* organizational label with its canonical form, and every entry of the
\* persisted site map unchanged; no participant entry takes their place.
C4_Passthroughs ==
    result["subject"] = "ok" =>
        LET m == subject_mapping_json.data
        IN  /\ site_mapping_json.exists
            /\ {combined, AMPSCZ, Prescient, ProNET, PRESCIENT, PRONET}
                  \subseteq DOMAIN m
            /\ m[combined] = combined
            /\ m[AMPSCZ] = AMPSCZ
            /\ m[Prescient] = Prescient
            /\ m[ProNET] = ProNET
            /\ m[PRESCIENT] = Prescient
            /\ m[PRONET] = ProNET
            /\ \A k \in DOMAIN site_mapping_json.data :
                  k \in DOMAIN m /\ m[k] = site_mapping_json.data[k]

C4_Witness ==
    /\ result["subject"] = "ok"
    /\ result["site"] = "ok"
    /\ PR00001 \in DOMAIN subject_mapping_json.data
    /\ <<"M", "E">> \in DOMAIN site_mapping_json.data

\* ------------------------------------------------------------------------
\* Properties of the date-offset stage (checked under SpecDates)
\* ------------------------------------------------------------------------

Declares(table, p) == \E i \in 1..Len(table.data) : table.data[i].subject = p

\* The value of the first row declaring p in the last source declaring p.
DeclaredOffset(p) ==
    LET k == CHOOSE i \in 1..Len(date_sources) :
                /\ Declares(date_sources[i], p)
                /\ \A j \in 1..Len(date_sources) :
                      Declares(date_sources[j], p) => j <= i
        rows == date_sources[k].data
        r == CHOOSE i \in 1..Len(rows) :
                /\ rows[i].subject = p
                /\ \A j \in 1..(i - 1) : rows[j].subject # p
    IN  rows[r].days

\* C10: in the persisted date-offset map a participant that is not an addon
\* has the value of the first row declaring it in the last source declaring
\* it, and every addon participant has a value of {-14, -7, 7, 14}, whatever
\* the sources declared for it.
C10_DateOffsets ==
    result["dates"] = "ok" =>
        LET m == subject_date_mapping_json.data
            declared == {p \in {PR00001, PR00002, ME00001, XX00009, EmptyString} :
                            \E i \in 1..Len(date_sources) :
                               Declares(date_sources[i], p)}
        IN  /\ DOMAIN m = declared \cup Range(date_addons)
            /\ \A p \in DOMAIN m :
                  IF p \in Range(date_addons)
                  THEN m[p] \in {0 - 14, 0 - 7, 7, 14}
                  ELSE m[p] = DeclaredOffset(p)

C10_Witness ==
    /\ result["dates"] = "ok"
    /\ Len(date_sources) = 2
    /\ Declares(date_sources[1], PR00001)
    /\ Declares(date_sources[2], PR00001)
    /\ Declares(date_sources[2], ME00001)
    /\ date_sources[1] # date_sources[2]
    /\ date_addons = <<PR00001>>
    /\ subject_date_mapping_json.data[ME00001] = 4


\* ------------------------------------------------------------------------
\* Properties of one call of get_anonymized_date (checked under SpecCell)
\* ------------------------------------------------------------------------

SetMin(S) == CHOOSE x \in S : \A y \in S : x <= y

\* The text between the first hyphen of a name and the next (or the end).
SecondSegment(name) ==
    LET hyphens == {i \in 1..Len(name) : name[i] = "-"}
    IN  IF hyphens = {} THEN NoneStr
        ELSE LET i1 == SetMin(hyphens)
                 later == {i \in hyphens : i > i1}
                 i2 == IF later = {} THEN Len(name) + 1 ELSE SetMin(later)
             IN  Some(SubSeq(name, i1 + 1, i2 - 1))

MonthStart == <<0, 31, 59, 90, 120, 151, 181, 212, 243, 273, 304, 334>>

\* The day number of the date a text starts with (YYYY-MM-DD), counted
\* from the start of year 1.
Ordinal(text) ==
    LET y == Num(SubSeq(text, 1, 4))
        m == Num(SubSeq(text, 6, 7))
        d == Num(SubSeq(text, 9, 10))
        leap == (y % 4 = 0 /\ y % 100 # 0) \/ y % 400 = 0
    IN  365 * (y - 1) + (y - 1) \div 4 - (y - 1) \div 100 + (y - 1) \div 400
           + MonthStart[m] + (IF m > 2 /\ leap THEN 1 ELSE 0) + d

\* By how many days the date of text b is after the date of text a.
DayShift(a, b) == Ordinal(b) - Ordinal(a)

CellIn == cell_row[cell_col]

CellHasIdentity == subject_id_col \in DOMAIN cell_row

CellByFile ==
    /\ SecondSegment(cell_file_name).some
    /\ Len(SecondSegment(cell_file_name).val) = 7

\* The cell starts with a date and its column is serialized with the date.
CellShowsDate ==
    /\ to_datetime(CellIn).ok
    /\ Len(CellIn) \in {10, 19}
    /\ cell_col # timeofday

\* The offset of participant p, 0 when the offset map does not have p.
OffsetOf(p) == IF p \in DOMAIN cell_date_map THEN cell_date_map[p] ELSE 0

\* C7 as stated: the offset applied is the one of the row's identity value
\* whenever the row carries an identity column, the filename's second
\* segment is used only without one, and without a 7-character code from
\* either the dates are unchanged.
C7_IdentityColumnFirst ==
    cell_pc = "done" =>
        /\ (CellHasIdentity /\ CellShowsDate) =>
              DayShift(CellIn, cell_out) = OffsetOf(cell_row[subject_id_col])
        /\ (~CellHasIdentity /\ CellByFile /\ CellShowsDate) =>
              DayShift(CellIn, cell_out)
                 = OffsetOf(SecondSegment(cell_file_name).val)
        /\ (~CellHasIdentity /\ ~CellByFile) => cell_out = CellIn

\* C7 as amended: the offset applied is the one of the filename's second
\* hyphen segment whenever that segment has 7 characters, also when the row
\* carries a subject_id column; the subject_id value of the row is used only
\* when the filename yields no 7-character code; with neither a 7-character
\* filename code nor a subject_id column the cell is unchanged.
C7_FilenameFirst ==
    cell_pc = "done" =>
        /\ (CellByFile /\ CellShowsDate) =>
              DayShift(CellIn, cell_out)
                 = OffsetOf(SecondSegment(cell_file_name).val)
        /\ (~CellByFile /\ CellHasIdentity /\ CellShowsDate) =>
              DayShift(CellIn, cell_out) = OffsetOf(cell_row[subject_id_col])
        /\ (~CellByFile /\ ~CellHasIdentity) => cell_out = CellIn

C7_Witness ==
    /\ cell_pc = "done"
    /\ cell_file_name = <<"P", "R", "-", "P", "R", "0", "0", "0", "0", "1", "-", "v", "i", "s", "i", "t", ".", "c", "s", "v">>
    /\ CellHasIdentity
    /\ cell_row[subject_id_col] = PR00002
    /\ cell_col = interview_date
    /\ CellIn = <<"2", "0", "2", "3", "-", "1", "2", "-", "2", "8">>
    /\ cell_out = <<"2", "0", "2", "4", "-", "0", "1", "-", "0", "4">>

\* The participant whose offset the call applies.
CellOwner ==
    IF CellByFile THEN SecondSegment(cell_file_name)
    ELSE IF CellHasIdentity THEN Some(cell_row[subject_id_col])
    ELSE NoneStr

\* The time of day a parsed cell carries, as HH:MM:SS.
CellTimeText ==
    IF Len(CellIn) = 10 THEN <<"0", "0", ":", "0", "0", ":", "0", "0">>
    ELSE IF Len(CellIn) = 19 THEN SubSeq(CellIn, 12, 19)
    ELSE CellIn

\* C8: a cell that parses, of a participant with offset d, comes out moved
\* by exactly d days with its time of day unchanged: as the time alone in
\* the timeofday column, as a full timestamp when the time is not midnight,
\* as a bare date otherwise; a cell that does not parse or whose participant
\* has no offset comes out unchanged.
C8_DateShift ==
    cell_pc = "done" =>
        /\ IF /\ CellOwner.some
              /\ CellOwner.val \in DOMAIN cell_date_map
              /\ to_datetime(CellIn).ok
           THEN LET d == cell_date_map[CellOwner.val]
                IN  IF cell_col = timeofday
                    THEN cell_out = CellTimeText
                    ELSE IF CellTimeText # <<"0", "0", ":", "0", "0", ":", "0", "0">>
                    THEN /\ Len(cell_out) = 19
                         /\ IsDateText(SubSeq(cell_out, 1, 10))
                         /\ cell_out[11] = " "
                         /\ SubSeq(cell_out, 12, 19) = CellTimeText
                         /\ Len(CellIn) = 19 => DayShift(CellIn, cell_out) = d
                    ELSE /\ Len(cell_out) = 10
                         /\ IsDateText(cell_out)
                         /\ DayShift(CellIn, cell_out) = d
           ELSE cell_out = CellIn
        /\ (CellOwner = Some(PR00001) /\ cell_col = interview_date) =>
              /\ CellIn = <<"2", "0", "2", "3", "-", "0", "1", "-", "0", "1">> => cell_out = <<"2", "0", "2", "3", "-", "0", "1", "-", "0", "8">>
              /\ CellIn = <<"2", "0", "2", "3", "-", "0", "1", "-", "0", "1", " ", "1", "3", ":", "4", "5", ":", "0", "0">>
                    => cell_out = <<"2", "0", "2", "3", "-", "0", "1", "-", "0", "8", " ", "1", "3", ":", "4", "5", ":", "0", "0">>

C8_Witness ==
    /\ cell_pc = "done"
    /\ CellOwner = Some(PR00001)
    /\ cell_col = interview_date
    /\ CellIn = <<"2", "0", "2", "3", "-", "0", "1", "-", "0", "1", " ", "1", "3", ":", "4", "5", ":", "0", "0">>
    /\ cell_out = <<"2", "0", "2", "3", "-", "0", "1", "-", "0", "8", " ", "1", "3", ":", "4", "5", ":", "0", "0">>


\* ------------------------------------------------------------------------
\* Properties of the anonymization walk (checked under SpecAnon)
\* ------------------------------------------------------------------------

Hyphens(name) == {i \in 1..Len(name) : name[i] = "-"}

\* The text before the first hyphen of a name.
FirstSegment(name) == SubSeq(name, 1, SetMin(Hyphens(name)) - 1)

\* The text after the second hyphen of a name, empty without one.
Suffix(name) ==
    LET later == {i \in Hyphens(name) : i > SetMin(Hyphens(name))}
    IN  IF later = {} THEN <<>>
        ELSE SubSeq(name, SetMin(later) + 1, Len(name))

IsCsv(name) ==
    Len(name) >= 4 /\ SubSeq(name, Len(name) - 3, Len(name)) = <<".", "c", "s", "v">>

IsMetadata(name) ==
    Len(name) >= 12 /\ SubSeq(name, Len(name) - 11, Len(name)) = <<"m", "e", "t", "a", "d", "a", "t", "a", ".", "c", "s", "v">>

\* The files the walk has dealt with.
Walked == {tree[i] : i \in 1..(walk_pos - 1)}

\* <<"srv", "out">> followed by the directories of dir below <<"srv", "data">>.
Mirrored(dir) == <<"srv", "out">> \o SubSeq(dir, 3, Len(dir))

WritesOf(f) == {i \in 1..Len(writes) : writes[i].src = f.path}

WarningsOf(f) == {i \in 1..Len(log) : log[i] = f.path}

\* C5 as stated: a file whose name ends in metadata.csv and has fewer than
\* two hyphens is never skipped; it is written to the output tree under its
\* own name, whatever the maps hold.
C5_MetadataUpToOneHyphen ==
    \A f \in Walked :
        (IsMetadata(f.path.name) /\ Cardinality(Hyphens(f.path.name)) < 2) =>
            /\ WarningsOf(f) = {}
            /\ \E i \in WritesOf(f) :
                  writes[i].dst = Path(Mirrored(f.path.dir), f.path.name)

\* C5 as amended: a file whose name ends in metadata.csv and has no hyphen
\* at all is never skipped; it is written to the output tree under its own
\* name, whatever the maps hold.
C5_MetadataNoHyphen ==
    \A f \in Walked :
        (IsMetadata(f.path.name) /\ Hyphens(f.path.name) = {}) =>
            /\ WarningsOf(f) = {}
            /\ \E i \in WritesOf(f) :
                  writes[i].dst = Path(Mirrored(f.path.dir), f.path.name)

C5_Witness ==
    /\ anon_pc = "done"
    /\ maps = PartialMaps
    /\ \E i \in 1..Len(writes) :
          /\ writes[i].src = Path(<<"srv", "data">>, <<"m", "e", "t", "a", "d", "a", "t", "a", ".", "c", "s", "v">>)
          /\ writes[i].dst = Path(<<"srv", "out">>, <<"m", "e", "t", "a", "d", "a", "t", "a", ".", "c", "s", "v">>)

\* C6: a .csv file named facility-participant-suffix whose facility is a key
\* of site_map and whose participant is a key of subject_map is written as
\* site_map[facility]-subject_map[participant]-suffix, the suffix being all
\* that follows the second hyphen, in the directory of output_root that
\* mirrors the file's directory under source_root.
C6_FileNameRewrite ==
    \A f \in Walked :
        LET name == f.path.name
        IN  (/\ IsCsv(name)
             /\ Hyphens(name) # {}
             /\ FirstSegment(name) \in DOMAIN maps.site_map
             /\ SecondSegment(name).val \in DOMAIN maps.subject_map) =>
               /\ Cardinality(WritesOf(f)) = 1
               /\ \A i \in WritesOf(f) :
                     writes[i].dst =
                        Path(Mirrored(f.path.dir),
                             maps.site_map[FirstSegment(name)] \o <<"-">>
                                \o maps.subject_map[SecondSegment(name).val]
                                \o <<"-">> \o Suffix(name))

C6_Witness ==
    /\ anon_pc = "done"
    /\ \E i \in 1..Len(writes) :
          /\ writes[i].src =
                Path(<<"srv", "data", "sub">>, <<"M", "E", "-", "M", "E", "0", "0", "0", "0", "1", "-", "a", "-", "b", ".", "c", "s", "v">>)
          /\ writes[i].dst =
                Path(<<"srv", "out", "sub">>, <<"A", "C", "-", "A", "C", "1", "1", "1", "1", "1", "-", "a", "-", "b", ".", "c", "s", "v">>)

\* The subject columns of the frames of the source tree.
IdentityColumns == {<<"s", "u", "b", "j", "e", "c", "t", "_", "i", "d">>, <<"S", "u", "b", "j", "e", "c", "t">>}

\* The rows of a source frame whose subject columns all hold keys of
\* subject_map.
MappedRows(df) ==
    {i \in 1..Len(df.rows) :
        \A c \in IdentityColumns \cap DOMAIN df.rows[i] :
            df.rows[i][c] \in DOMAIN maps.subject_map}

\* C9: a written file holds exactly the rows whose subject values are keys
\* of subject_map, each subject value replaced by its image; a .csv file
\* whose facility or participant segment is unmapped is not written and is
\* warned about once; the walk never aborts and deals with every file.
C9_GracefulDegradation ==
    /\ anon_pc # "aborted"
    /\ anon_pc = "done" => walk_pos = Len(tree) + 1
    /\ \A f \in Walked :
          /\ IsCsv(f.path.name) =>
                Cardinality(WritesOf(f)) + Cardinality(WarningsOf(f)) = 1
          /\ \A i \in WritesOf(f) :
                /\ Len(writes[i].df.rows) = Cardinality(MappedRows(f.df))
                /\ \A k \in 1..Len(writes[i].df.rows) :
                      \A c \in IdentityColumns \cap DOMAIN writes[i].df.rows[k] :
                         \E s \in DOMAIN maps.subject_map :
                            /\ writes[i].df.rows[k][c] = maps.subject_map[s]
                            /\ \E j \in MappedRows(f.df) : f.df.rows[j][c] = s
          /\ (/\ IsCsv(f.path.name)
              /\ Hyphens(f.path.name) # {}
              /\ \/ FirstSegment(f.path.name) \notin DOMAIN maps.site_map
                 \/ SecondSegment(f.path.name).val
                       \notin DOMAIN maps.subject_map) =>
                /\ WritesOf(f) = {}
                /\ Cardinality(WarningsOf(f)) = 1

C9_Witness ==
    /\ anon_pc = "done"
    /\ maps = FullMaps
    /\ Len(tree) = 2
    /\ tree[1].path.name = <<"P", "R", "-", "X", "X", "0", "0", "0", "0", "9", "-", "v", "i", "s", "i", "t", ".", "c", "s", "v">>
    /\ tree[2].path.name = <<"P", "R", "-", "P", "R", "0", "0", "0", "0", "1", "-", "v", "i", "s", "i", "t", ".", "c", "s", "v">>
    /\ log = <<tree[1].path>>
    /\ Len(writes) = 1
    /\ writes[1].src = tree[2].path
    /\ Len(writes[1].df.rows) = 2
    /\ Len(tree[2].df.rows) = 3

\* ------------------------------------------------------------------------
\* Properties of the stages as separate invocations (checked under SpecRuns)
\* ------------------------------------------------------------------------

\* A declared source path that the source loop has still to reach does not
\* exist.
MissingSource == \E i \in 1..Len(sources) : ~sources[i].exists

\* A participant of the subject-map stage has a 2-character prefix that is
\* no key of the site map.
UnknownSitePrefix == \E s \in subjects : Prefix2(s) \notin DOMAIN site_map

InSubjectLoop == pc \in {"subject_loop", "subject_check"}

Errors == {"FileNotFoundError", "KeyError"}

MapFiles ==
    <<site_mapping_json, subject_mapping_json, subject_date_mapping_json>>

\* The step ends the script with the exception.
EndsIn(script, exc) ==
    /\ pc' = "idle"
    /\ result[script] = "none"
    /\ result'[script] = exc

\* What C11 asks of one step.
NoMapWrittenOnError ==
    /\ \A st \in {[script |-> "site", at |-> "site_read"],
                   [script |-> "subject", at |-> "subject_read"],
                   [script |-> "dates", at |-> "dates_read"]} :
          (pc = st.at /\ MissingSource)
             => /\ MapFiles' = MapFiles
                /\ \/ pc' = st.at /\ MissingSource'
                   \/ EndsIn(st.script, "FileNotFoundError")
    /\ (InSubjectLoop /\ UnknownSitePrefix)
          => /\ MapFiles' = MapFiles
             /\ \/ InSubjectLoop' /\ UnknownSitePrefix'
                \/ EndsIn("subject", "KeyError")
    /\ \A s \in Scripts :
          (result[s] = "none" /\ result'[s] \in Errors)
             => MapFiles' = MapFiles

\* C11: Fatal errors write no map file. In each of the three map-building
\* stages, as long as a declared source path that does not exist is ahead
\* of the source loop (at whatever position), a step of the stage writes
\* none of the map files and either stays in the source loop with the
\* missing path still ahead or ends the stage with FileNotFoundError; in
\* the subject-map stage, as long as a participant's 2-character prefix is
\* absent from the site map, a step writes none of the map files and either
\* stays in get_subject_map or ends the stage with KeyError; and every
\* step that ends a stage in an error leaves the three map files as they
\* were.
C11_FatalErrorsWriteNoMap == [][NoMapWrittenOnError]_vars

\* The dates stage has failed on a path missing at the second position and
\* the subject stage on an unknown prefix, and the map files of the earlier
\* run are still in place.
C11_Witness ==
    /\ result["dates"] = "FileNotFoundError"
    /\ Len(date_sources) = 2
    /\ date_sources[1].exists
    /\ ~date_sources[2].exists
    /\ result["subject"] = "KeyError"
    /\ subject_mapping_json = File(PartialMaps.subject_map)
    /\ subject_date_mapping_json = File(PartialMaps.date_map)

\* The maps as the files of mappings_root hold them.
Persisted ==
    [site_map |-> site_mapping_json.data,
     subject_map |-> subject_mapping_json.data,
     date_map |-> subject_date_mapping_json.data]

\* The step is one of anonymize_data.
AnonymizeStep == anonVars' # anonVars

\* The step is the json.dump of generate_subject_map.
SubjectMapDumped ==
    \/ subject_mapping_json' # subject_mapping_json
    \/ result["subject"] = "none" /\ result'["subject"] = "ok"

\* What C12 asks of one step.
StagesInOrder ==
    /\ InSubjectLoop' =>
          /\ site_mapping_json'.exists
          /\ site_map' = site_mapping_json'.data
    /\ SubjectMapDumped =>
          /\ site_mapping_json.exists
          /\ site_map = site_mapping_json.data
          /\ pc = "subject_map_ready"
    /\ AnonymizeStep =>
          /\ MapFiles' = MapFiles
          /\ anon_pc = "walk" => maps' = maps
          /\ anon_pc' = "walk" => MapFilesExist /\ maps' = Persisted
          /\ \A i \in 1..Len(writes') : writes'[i].dst.name \notin MapFileNames

\* C12: Stage ordering across separate invocations. In every sequence of
\* stage runs, get_subject_map is entered only when site_mapping.json exists
\* and with the site map loaded from it; subject_mapping.json is written
\* only by a subject stage that has loaded the persisted site map; and the
\* steps of the anonymization stage leave the three map files as they
\* are, work on the maps as loaded from the three files, never change the
\* loaded maps and write no output under the name of a map file.
C12_StageOrdering == [][StagesInOrder]_vars

\* On the files of an earlier run the subject stage has written a new
\* subject map from the persisted site map, and the anonymization stage has
\* then loaded it and written output.
C12_Witness ==
    /\ result["subject"] = "ok"
    /\ subject_mapping_json # File(PartialMaps.subject_map)
    /\ site_mapping_json = File(PartialMaps.site_map)
    /\ anon_pc = "done"
    /\ maps = Persisted
    /\ writes # <<>>

\* ------------------------------------------------------------------------
\* Properties of the outputs of one anonymization run (checked under SpecAnon)
\* ------------------------------------------------------------------------

\* The .csv inputs walked so far that were not ignored.
NotSkipped == {f \in Walked : IsCsv(f.path.name) /\ WarningsOf(f) = {}}

\* The output paths written so far.
OutputPaths == {writes[i].dst : i \in 1..Len(writes)}

\* C13: One output file per qualifying input file. Within one anonymization
\* run no two df.to_csv calls go to the same output path, and the number of
\* different files written equals the number of .csv inputs that were not
\* skipped.
C13_OneOutputPerInput ==
    /\ \A i, j \in 1..Len(writes) :
          i # j => writes[i].dst # writes[j].dst
    /\ Cardinality(OutputPaths) = Cardinality(NotSkipped)

\* ------------------------------------------------------------------------
\* Termination of the retry loops (checked under SpecRetry)
\* ------------------------------------------------------------------------

\* The participants that share the facility prefix p.
OfFacility(p) == {s \in subjects : Prefix2(s) = p}

\* There are no more facilities than codes generate_site_id can give.
SiteCodesSuffice == Cardinality(sites) <= Cardinality(generate_site_id)

\* No facility has more participants than generate_subject_id can give codes.
SubjectCodesSuffice ==
    \A s \in subjects :
       Cardinality(OfFacility(Prefix2(s))) <= Cardinality(generate_subject_id)

\* C14: Termination of the collision-retry loops. Under fair random choice
\* of candidates get_site_map, called on a non-empty set of facilities,
\* eventually returns with every facility assigned, and get_subject_map,
\* called on participants whose prefixes are all in the site map,
\* eventually returns: no input makes a retry loop run forever.
C14_RetryLoopsTerminate ==
    /\ (pc = "site_loop" /\ sites # {})
          ~> (pc = "site_map_ready" /\ DOMAIN site_map = sites)
    /\ (pc = "subject_loop" /\ ~UnknownSitePrefix)
          ~> (pc = "subject_map_ready" /\ DOMAIN subject_map = subjects)

\* What does hold of the retry loops: under fair random choice of
\* candidates get_site_map, called on a non-empty set of facilities no
\* larger than the number of site codes, eventually returns with every
\* facility assigned, and get_subject_map, called on participants whose
\* prefixes are all in the site map and of whom no more share a facility
\* than there are subject codes, eventually returns with every participant
\* assigned.
RetryLoopsTerminateWithinCodes ==
    /\ (pc = "site_loop" /\ sites # {} /\ SiteCodesSuffice)
          ~> (pc = "site_map_ready" /\ DOMAIN site_map = sites)
    /\ (pc = "subject_loop" /\ ~UnknownSitePrefix /\ SubjectCodesSuffice)
          ~> (pc = "subject_map_ready" /\ DOMAIN subject_map = subjects)

\* get_subject_map has returned after it gave every subject code there is
\* to the participants of one facility.
AllSubjectCodesGiven ==
    /\ pc = "subject_map_ready"
    /\ Cardinality(subjects) = NSubjectIds
    /\ DOMAIN subject_map = subjects
    /\ Cardinality(Range(subject_map)) = Cardinality(generate_subject_id)

====
